---- MODULE Spec2Model ----
(***************************************************************************)
(* Model of modules/layers/src/icon-layer/icon-manager.js: the icon atlas  *)
(* packer (buildMapping), the icon differ (getDiffIcons), the per-context  *)
(* atlas cache (cached) and the IconManager that orchestrates an update    *)
(* and the asynchronous icon loads.                                        *)
(*                                                                         *)
(* JavaScript values: an absent string (undefined/null) is "", an absent   *)
(* texture is 0, an object that may be undefined carries a field def.      *)
(* The pre-packed atlas path (iconAtlas, iconMapping, _texture, _mapping)  *)
(* does not touch the cache and is left out.                               *)
(***************************************************************************)
EXTENDS Integers, Sequences, FiniteSets, TLC

\* ------------------------------------------------------------ constants
MAX_CANVAS_WIDTH == 1024
DEFAULT_BUFFER == 4
\* const cached = new LRUCache(3)
CacheLimit == 3

\* ------------------------------------------------------------ bounds
\* number of distinct owning contexts (gl)
NumCtx == 4
\* number of IconManager constructions
MaxManagers == 2
\* number of setProps calls
MaxUpdates == 2
\* number of records in one data batch
MaxBatch == 2
\* the same three bounds of the specification of the cache, SpecCache: managers
\* enough to fill the cache and evict, small batches
CacheManagers == 4
CacheUpdates == 2
CacheBatch == 2
\* the specification of the packer alone, SpecPack: icons in one batch
PackBatch == 3
\* the specification of the cache reads, SpecLRU
LruManagers == 4
LruUpdates == 2
LruReads == 2
LruBatch == 1

VARIABLES
  cached,    \* the LRU cache: [store: gl -> atlas state, order: least recent first]
  managers,  \* sequence of IconManager objects [gl, getIcon, autoPacking]
  textures,  \* sequence of Texture2D objects [width, height]; a handle is an index
  loading,   \* loadImage promises in flight, with what their callback captured
  batches,   \* per packing update: [m, gl, k, events], what it and its loads did, in order
  calls,     \* number of setProps calls so far
  last,      \* what the last handler did
  reads,     \* number of getTexture and getIconMapping calls so far
  packing    \* a call of buildMapping on its own: its arguments and its result

vars == <<cached, managers, textures, loading, batches, calls, last, reads, packing>>

\* ------------------------------------------------------------ inputs
Ctx == 1..NumCtx

\* a data record together with what getIcon yields for it: icon = FALSE when
\* getIcon returns nothing, id = "" when the icon has no id, url = "" when it
\* has no url
Point(icon, id, url, width, height) ==
  [icon |-> icon, id |-> id, url |-> url, width |-> width, height |-> height]

Points ==
  { Point(TRUE, "a", "u1", 500, 100),
    Point(TRUE, "a", "u2", 500, 100),
    Point(TRUE, "", "ub", 500, 10),
    Point(TRUE, "c", "uc", 1100, 10),
    Point(TRUE, "a", "", 500, 100),
    Point(FALSE, "", "", 0, 0) }

\* the records of the batches of SpecCache
CachePoints ==
  { Point(TRUE, "a", "u1", 500, 100),
    Point(TRUE, "", "ub", 500, 10) }

BatchesOf(points, maxBatch) == UNION { [1..n -> points] : n \in 0..maxBatch }

\* the data prop: not given (undefined) or an array
DataInputs(batchSet) ==
  {[given |-> FALSE, pts |-> <<>>]} \cup {[given |-> TRUE, pts |-> s] : s \in batchSet}

\* the autoPacking prop: undefined, true or false
AutoPackingInputs == {"undefined", "true", "false"}

EmptyMapping == <<>>

\* ------------------------------------------------------------ geometry
RECURSIVE PowOfTwoFrom(_, _)
PowOfTwoFrom(p, number) == IF p >= number THEN p ELSE PowOfTwoFrom(2 * p, number)

\* Math.pow(2, Math.ceil(Math.log2(number))), number >= 1
nextPowOfTwo(number) == PowOfTwoFrom(1, number)

\* icon && (icon.id || icon.url)
getIconId(icon) ==
  IF ~icon.icon THEN "" ELSE IF icon.id # "" THEN icon.id ELSE icon.url

\* ------------------------------------------------------------ shelf packer
\* Object.assign({}, icon, {x: xOffset, y: yOffset})
Positioned(icon, x, y) ==
  [id |-> icon.id, url |-> icon.url, width |-> icon.width, height |-> icon.height,
   x |-> x, y |-> y]

\* mapping[id] = value
SetKey(mapping, id, value) ==
  [k \in (DOMAIN mapping) \cup {id} |-> IF k = id THEN value ELSE mapping[k]]

RECURSIVE RowLoop(_, _, _, _)
RowLoop(mapping, columns, yOffset, i) ==
  IF i > Len(columns) THEN mapping
  ELSE RowLoop(SetKey(mapping, getIconId(columns[i].icon),
                      Positioned(columns[i].icon, columns[i].xOffset, yOffset)),
               columns, yOffset, i + 1)

\* traverse icons in a row of icon atlas, extend each icon with left-top coordinates
buildRowMapping(mapping, columns, yOffset) == RowLoop(mapping, columns, yOffset, 1)

Max(a, b) == IF a >= b THEN a ELSE b

\* a new row that keeps the height of the row before it
CloseRowKeepsHeight(s, buffer) ==
  [mapping |-> buildRowMapping(s.mapping, s.columns, s.yOffset),
   columns |-> <<>>,
   xOffset |-> 0,
   yOffset |-> s.rowHeight + s.yOffset + buffer,
   rowHeight |-> s.rowHeight]

\* a new row that starts without the buffer below the row before it
CloseRowNoBuffer(s, buffer) ==
  [mapping |-> buildRowMapping(s.mapping, s.columns, s.yOffset),
   columns |-> <<>>,
   xOffset |-> 0,
   yOffset |-> s.rowHeight + s.yOffset,
   rowHeight |-> 0]

\* fill one row: the queued columns are written at yOffset and a new row starts
CloseRow(s, buffer) ==
  [mapping |-> buildRowMapping(s.mapping, s.columns, s.yOffset),
   columns |-> <<>>,
   xOffset |-> 0,
   yOffset |-> s.rowHeight + s.yOffset + buffer,
   rowHeight |-> 0]

\* a cursor that advances by the width of the icon only
PushColumnNoBuffer(s, icon, buffer) ==
  [mapping |-> s.mapping,
   columns |-> Append(s.columns, [icon |-> icon, xOffset |-> s.xOffset]),
   xOffset |-> s.xOffset + icon.width,
   yOffset |-> s.yOffset,
   rowHeight |-> Max(s.rowHeight, icon.height)]

\* columns.push({icon, xOffset}); the cursor and the row height advance
PushColumn(s, icon, buffer) ==
  [mapping |-> s.mapping,
   columns |-> Append(s.columns, [icon |-> icon, xOffset |-> s.xOffset]),
   xOffset |-> s.xOffset + icon.width + buffer,
   yOffset |-> s.yOffset,
   rowHeight |-> Max(s.rowHeight, icon.height)]

\* the loop of buildMapping; s = [mapping, columns, xOffset, yOffset, rowHeight]
RECURSIVE PackLoop(_, _, _, _, _)
PackLoop(icons, buffer, maxCanvasWidth, s, i) ==
  IF i > Len(icons) THEN s
  ELSE PackLoop(icons, buffer, maxCanvasWidth,
                PushColumn(IF s.xOffset + icons[i].width + buffer > maxCanvasWidth
                           THEN CloseRow(s, buffer) ELSE s,
                           icons[i], buffer),
                i + 1)

\* after the loop: the last row is written and the canvas height computed
PackResult(s, buffer, maxCanvasWidth) ==
  [mapping |-> IF Len(s.columns) > 0
               THEN buildRowMapping(s.mapping, s.columns, s.yOffset)
               ELSE s.mapping,
   xOffset |-> s.xOffset,
   yOffset |-> s.yOffset,
   canvasWidth |-> maxCanvasWidth,
   canvasHeight |-> nextPowOfTwo(s.rowHeight + s.yOffset + buffer)]

\* Generate coordinate mapping to retrieve icon left-top position from an icon atlas.
\* rowHeight and columns start empty on every call.
buildMapping(icons, buffer, mapping, xOffset, yOffset, maxCanvasWidth) ==
  PackResult(PackLoop(icons, buffer, maxCanvasWidth,
                      [mapping |-> mapping, columns |-> <<>>, xOffset |-> xOffset,
                       yOffset |-> yOffset, rowHeight |-> 0], 1),
             buffer, maxCanvasWidth)

\* ------------------------------------------------------------ icon differ
JsBoolean(b) == [t |-> "boolean", b |-> b, s |-> ""]
JsString(s) == [t |-> "string", b |-> FALSE, s |-> s]
\* ToBoolean
Truthy(v) == IF v.t = "boolean" THEN v.b ELSE v.s # ""
\* !v
JsNot(v) == JsBoolean(~Truthy(v))
\* a !== b: values of different types are never strictly equal
StrictNotEqual(a, b) == a.t # b.t \/ a # b

HasIcon(icons, id) == \E j \in 1..Len(icons) : getIconId(icons[j]) = id

\* icons[id] = icon: a new key is appended, an existing key keeps its place
PutIcon(icons, id, icon) ==
  IF HasIcon(icons, id)
  THEN [j \in 1..Len(icons) |-> IF getIconId(icons[j]) = id THEN icon ELSE icons[j]]
  ELSE Append(icons, icon)

\* !icons[id] || !cachedIcons[id] || !icon.url !== cachedIcons[id].url, where
\* reading a key of an undefined cachedIcons throws
NeedsPacking(icons, icon, id, cachedDef, cachedIcons) ==
  IF ~HasIcon(icons, id) THEN "yes"
  ELSE IF ~cachedDef THEN "TypeError"
  ELSE IF id \notin DOMAIN cachedIcons THEN "yes"
  ELSE IF StrictNotEqual(JsNot(JsString(icon.url)), JsString(cachedIcons[id].url))
       THEN "yes" ELSE "no"

DiffError(err) == [err |-> err, icons |-> <<>>]

RECURSIVE DiffLoop(_, _, _, _, _)
\* an iteration that skips a record without icon or url instead of throwing
DiffStepSkipsBad(pts, cachedDef, cachedIcons, icons, i, icon, need) ==
  IF ~icon.icon \/ icon.url = ""
  THEN DiffLoop(pts, cachedDef, cachedIcons, icons, i + 1)
  ELSE IF need = "TypeError" THEN DiffError("TypeError")
  ELSE DiffLoop(pts, cachedDef, cachedIcons,
                IF need = "yes" THEN PutIcon(icons, getIconId(icon), icon) ELSE icons,
                i + 1)

\* one iteration for icon = getIcon(point), need = the outcome of the test
DiffStep(pts, cachedDef, cachedIcons, icons, i, icon, need) ==
  IF ~icon.icon THEN DiffError("IconMissing")
  ELSE IF icon.url = "" THEN DiffError("UrlMissing")
  ELSE IF need = "TypeError" THEN DiffError("TypeError")
  ELSE DiffLoop(pts, cachedDef, cachedIcons,
                IF need = "yes" THEN PutIcon(icons, getIconId(icon), icon) ELSE icons,
                i + 1)

DiffLoop(pts, cachedDef, cachedIcons, icons, i) ==
  IF i > Len(pts) THEN [err |-> "none", icons |-> icons]
  ELSE DiffStep(pts, cachedDef, cachedIcons, icons, i, pts[i],
                NeedsPacking(icons, pts[i], getIconId(pts[i]), cachedDef, cachedIcons))

\* extract icons from data; the result is Object.values(getDiffIcons(..) || {}):
\* nothing when data or getIcon is missing
getDiffIcons(data, getIcon, cachedDef, cachedIcons) ==
  IF ~data.given \/ ~getIcon THEN [err |-> "none", icons |-> <<>>]
  ELSE DiffLoop(data.pts, cachedDef, cachedIcons, <<>>, 1)

\* ------------------------------------------------------------ atlas cache
\* LRUCache of ../text-layer/lru-cache: get, set, least-recently-touched eviction
Without(order, key) == SelectSeq(order, LAMBDA k : k # key)

Touch(order, key) == Append(Without(order, key), key)

Restrict(f, keys) == [k \in keys |-> f[k]]

\* cached.get(key): the value (def = FALSE when absent) and the cache after the touch
LRUGet(c, key) ==
  IF key \in DOMAIN c.store
  THEN [def |-> TRUE, value |-> c.store[key],
        cache |-> [store |-> c.store, order |-> Touch(c.order, key)]]
  ELSE [def |-> FALSE, value |-> 0, cache |-> c]

\* cached.set(key, value)
LRUSet(c, key, value) ==
  IF key \in DOMAIN c.store
  THEN [store |-> SetKey(c.store, key, value), order |-> Touch(c.order, key)]
  ELSE LET full == Cardinality(DOMAIN c.store) >= CacheLimit
           kept == IF full THEN (DOMAIN c.store) \ {Head(c.order)} ELSE DOMAIN c.store
           ord == IF full THEN Tail(c.order) ELSE c.order
       IN [store |-> SetKey(Restrict(c.store, kept), key, value),
           order |-> Append(ord, key)]

\* ------------------------------------------------------------ IconManager
\* the state the constructor registers: no texture yet
EmptyState ==
  [mapping |-> EmptyMapping, texture |-> 0, xOffset |-> 0, yOffset |-> 0,
   canvasWidth |-> 0, canvasHeight |-> 0]

\* cached.get(this.gl) || {}: every field of {} is undefined
CachedData(g) ==
  IF g.def
  THEN [def |-> TRUE, mapping |-> g.value.mapping, texture |-> g.value.texture,
        xOffset |-> g.value.xOffset, yOffset |-> g.value.yOffset]
  ELSE [def |-> FALSE, mapping |-> EmptyMapping, texture |-> 0,
        xOffset |-> 0, yOffset |-> 0]

Event(e, id) == [e |-> e, id |-> id]

\* the loads _loadIcons starts: one loadImage per icon, the callback closes over
\* this, icon, texture and canvasHeight = texture.height
LoadIcons(m, gl, icons, texture, canvasHeight, batch) ==
  { [m |-> m, gl |-> gl, icon |-> icons[i], texture |-> texture,
     canvasHeight |-> canvasHeight, batch |-> batch] : i \in 1..Len(icons) }

\* new Texture2D(gl, {width, height})
NewTexture(width, height) == [width |-> width, height |-> height]

\* _resizeTexture(texture, width, height): texture.resize, old pixels written
\* back at y = height - oldHeight, mipmaps regenerated
ResizeTexture(texs, texture, width, height) ==
  [texs EXCEPT ![texture] = [width |-> width, height |-> height]]

\* the notification sent before the state is committed
UpdateEventsNotifyFirst(created, resized) ==
  (IF created THEN <<Event("create", "")>> ELSE <<>>)
  \o (IF resized THEN <<Event("resize", "")>> ELSE <<>>)
  \o <<Event("notify", ""), Event("commit", "")>>

\* the synchronous effects of a packing update, in program order
UpdateEvents(created, resized) ==
  (IF created THEN <<Event("create", "")>> ELSE <<>>)
  \o (IF resized THEN <<Event("resize", "")>> ELSE <<>>)
  \o <<Event("commit", ""), Event("notify", "")>>

\* the outcome of _updateAutoPacking: packed is TRUE once buildMapping has run
Outcome(c, texs, loads, err, icons, packed, events) ==
  [cached |-> c, textures |-> texs, loads |-> loads, err |-> err, icons |-> icons,
   packed |-> packed, events |-> events]

\* cached.set(this.gl, {mapping, texture, xOffset, yOffset, canvasHeight});
\* this.onUpdate(); this._loadIcons(icons, texture). canvasWidth is not set.
Commit(c, texs, mi, gl, icons, bm, texture, created, resized, batch) ==
  Outcome(LRUSet(c, gl, [mapping |-> bm.mapping, texture |-> texture,
                         xOffset |-> bm.xOffset, yOffset |-> bm.yOffset,
                         canvasWidth |-> -1, canvasHeight |-> bm.canvasHeight]),
          texs,
          LoadIcons(mi, gl, icons, texture, texs[texture].height, batch),
          "none", icons, TRUE, UpdateEvents(created, resized))

\* a resize that is requested only when the canvas grows
WithTextureGrowOnly(c, texs, mi, gl, icons, bm, texture, created, surfaceOk, batch) ==
  IF texs[texture].height < bm.canvasHeight
  THEN IF surfaceOk
       THEN Commit(c, ResizeTexture(texs, texture, texs[texture].width, bm.canvasHeight),
                   mi, gl, icons, bm, texture, created, TRUE, batch)
       ELSE Outcome(c, texs, {}, "SurfaceError", icons, TRUE, <<>>)
  ELSE Commit(c, texs, mi, gl, icons, bm, texture, created, FALSE, batch)

\* if (texture.height !== canvasHeight) this._resizeTexture(..)
WithTexture(c, texs, mi, gl, icons, bm, texture, created, surfaceOk, batch) ==
  IF texs[texture].height # bm.canvasHeight
  THEN IF surfaceOk
       THEN Commit(c, ResizeTexture(texs, texture, texs[texture].width, bm.canvasHeight),
                   mi, gl, icons, bm, texture, created, TRUE, batch)
       ELSE Outcome(c, texs, {}, "SurfaceError", icons, TRUE, <<>>)
  ELSE Commit(c, texs, mi, gl, icons, bm, texture, created, FALSE, batch)

\* let texture = cachedData.texture; if (!texture) texture = new Texture2D(..)
Packed(c, texs, mi, gl, icons, bm, cachedTexture, maxCanvasWidth, surfaceOk, batch) ==
  IF cachedTexture = 0
  THEN IF surfaceOk
       THEN WithTexture(c, Append(texs, NewTexture(maxCanvasWidth, bm.canvasHeight)),
                        mi, gl, icons, bm, Len(texs) + 1, TRUE, surfaceOk, batch)
       ELSE Outcome(c, texs, {}, "SurfaceError", icons, TRUE, <<>>)
  ELSE WithTexture(c, texs, mi, gl, icons, bm, cachedTexture, FALSE, surfaceOk, batch)

\* buildMapping wrote the new rows into cachedData.mapping, which is the object
\* held by the cache (a fresh object when cachedData is {})
AfterPacking(c, cachedDef, gl, bm) ==
  IF cachedDef THEN [c EXCEPT !.store[gl].mapping = bm.mapping] ELSE c

\* an update that packs and commits whatever the number of diff icons
DiffedAlways(c, texs, mi, m, cachedData, diff, bm, maxCanvasWidth, surfaceOk, batch) ==
  IF diff.err # "none"
  THEN Outcome(c, texs, {}, diff.err, diff.icons, FALSE, <<>>)
  ELSE Packed(AfterPacking(c, cachedData.def, m.gl, bm), texs, mi, m.gl, diff.icons, bm,
              cachedData.texture, maxCanvasWidth, surfaceOk, batch)

\* if (icons.length > 0) { buildMapping(..) .. }
Diffed(c, texs, mi, m, cachedData, diff, bm, maxCanvasWidth, surfaceOk, batch) ==
  IF diff.err # "none" \/ Len(diff.icons) = 0
  THEN Outcome(c, texs, {}, diff.err, diff.icons, FALSE, <<>>)
  ELSE Packed(AfterPacking(c, cachedData.def, m.gl, bm), texs, mi, m.gl, diff.icons, bm,
              cachedData.texture, maxCanvasWidth, surfaceOk, batch)

DiffOf(m, data, cachedData) ==
  getDiffIcons(data, m.getIcon, cachedData.def, cachedData.mapping)

\* the packing of the diff icons, resumed from the cached cursor
MappingOf(diff, buffer, cachedData, maxCanvasWidth) ==
  buildMapping(diff.icons, buffer, cachedData.mapping, cachedData.xOffset,
               cachedData.yOffset, maxCanvasWidth)

Fetched(c, texs, mi, m, data, cachedData, diff, buffer, maxCanvasWidth, surfaceOk, batch) ==
  Diffed(c, texs, mi, m, cachedData, diff,
         MappingOf(diff, buffer, cachedData, maxCanvasWidth),
         maxCanvasWidth, surfaceOk, batch)

Got(g, texs, mi, m, data, cachedData, buffer, maxCanvasWidth, surfaceOk, batch) ==
  Fetched(g.cache, texs, mi, m, data, cachedData, DiffOf(m, data, cachedData),
          buffer, maxCanvasWidth, surfaceOk, batch)

\* _updateAutoPacking({data, buffer, maxCanvasWidth}) of manager m (index mi), g the
\* result of cached.get(this.gl); surfaceOk = FALSE makes the texture creation
\* or resize throw
UpdateAutoPacking(g, texs, mi, m, data, buffer, maxCanvasWidth, surfaceOk, batch) ==
  Got(g, texs, mi, m, data, CachedData(g), buffer, maxCanvasWidth, surfaceOk, batch)

Count(events, e) == Cardinality({i \in 1..Len(events) : events[i].e = e})

NoWrite == [texture |-> 0, x |-> 0, y |-> 0, width |-> 0, height |-> 0]

NoData == [given |-> FALSE, pts |-> <<>>]

\* what the last handler did: for setProps the data prop and the diff icons,
\* for a load the batch, the icon id and the region written
Last(op, m, gl, err, notified, scheduled, batch, id, write, data, diff) ==
  [op |-> op, m |-> m, gl |-> gl, err |-> err, notified |-> notified,
   scheduled |-> scheduled, batch |-> batch, id |-> id, write |-> write,
   data |-> data, diff |-> diff]

\* a handler that is no setProps and no load callback
Plain(op, m, gl, batch, id) ==
  Last(op, m, gl, "none", 0, 0, batch, id, NoWrite, NoData, <<>>)

\* no call of buildMapping on its own
NoResult ==
  [mapping |-> EmptyMapping, xOffset |-> 0, yOffset |-> 0, canvasWidth |-> 0,
   canvasHeight |-> 0]

NoPacking ==
  [called |-> FALSE, icons |-> <<>>, buffer |-> 0, maxCanvasWidth |-> 0,
   result |-> NoResult]

Init ==
  /\ cached = [store |-> <<>>, order |-> <<>>]
  /\ managers = <<>>
  /\ textures = <<>>
  /\ loading = {}
  /\ batches = <<>>
  /\ calls = 0
  /\ last = Plain("init", 0, 0, 0, "")
  /\ reads = 0
  /\ packing = NoPacking

UsedCtx == {managers[i].gl : i \in 1..Len(managers)}

\* new IconManager(gl, {onUpdate}); contexts are opaque tokens, so a context not
\* used before is the next unused one
New(gl, maxManagers) ==
  /\ Len(managers) < maxManagers
  /\ gl \in UsedCtx \/ gl = Cardinality(UsedCtx) + 1
  /\ managers' = Append(managers, [gl |-> gl, getIcon |-> FALSE, autoPacking |-> FALSE])
  /\ cached' = LRUSet(cached, gl, EmptyState)
  /\ last' = Plain("new", Len(managers) + 1, gl, 0, "")
  /\ UNCHANGED <<textures, loading, batches, calls, reads, packing>>

\* the props stored by setProps
WithProps(m, autoPacking, getIcon) ==
  [gl |-> m.gl,
   getIcon |-> IF getIcon THEN TRUE ELSE m.getIcon,
   autoPacking |-> IF autoPacking = "undefined" THEN m.autoPacking
                   ELSE autoPacking = "true"]

\* the state after _updateAutoPacking returned or threw r
Updated(mi, m, data, r) ==
  /\ cached' = r.cached
  /\ textures' = r.textures
  /\ loading' = loading \cup r.loads
  /\ batches' = IF r.packed
                THEN Append(batches, [m |-> mi, gl |-> m.gl, k |-> Len(r.icons),
                                      events |-> r.events])
                ELSE batches
  /\ last' = Last("setProps", mi, m.gl, r.err, Count(r.events, "notify"),
                  Cardinality(r.loads), IF r.packed THEN Len(batches) + 1 ELSE 0,
                  "", NoWrite, data, r.icons)

\* if (this._autoPacking && (data || getIcon)) this._updateAutoPacking(..)
RunProps(mi, m, getIcon, data, surfaceOk) ==
  IF m.autoPacking /\ (data.given \/ getIcon)
  THEN Updated(mi, m, data, UpdateAutoPacking(LRUGet(cached, m.gl), textures, mi, m, data,
                                              DEFAULT_BUFFER, MAX_CANVAS_WIDTH,
                                              surfaceOk, Len(batches) + 1))
  ELSE /\ last' = Last("setProps", mi, m.gl, "none", 0, 0, 0, "", NoWrite, data, <<>>)
       /\ UNCHANGED <<cached, textures, loading, batches>>

\* setProps({autoPacking, data, getIcon})
SetProps(mi, autoPacking, getIcon, data, surfaceOk, maxUpdates) ==
  /\ calls < maxUpdates
  /\ mi \in 1..Len(managers)
  /\ managers' = [managers EXCEPT ![mi] = WithProps(managers[mi], autoPacking, getIcon)]
  /\ calls' = calls + 1
  /\ UNCHANGED <<reads, packing>>
  /\ RunProps(mi, WithProps(managers[mi], autoPacking, getIcon), getIcon, data, surfaceOk)

\* texture.setSubImageData({data, x, y: canvasHeight - y - height, width, height})
\* for the mapping entry e, then generateMipmap and onUpdate
WriteIcon(p, id, e) ==
  /\ batches' = [batches EXCEPT ![p.batch].events =
                   @ \o <<Event("write", id), Event("mipmap", id), Event("notify", id)>>]
  /\ last' = Last("resolve", p.m, p.gl, "none", 1, 0, p.batch, id,
                  [texture |-> p.texture, x |-> e.x,
                   y |-> p.canvasHeight - e.y - e.height,
                   width |-> e.width, height |-> e.height], NoData, <<>>)

\* the callback of _loadIcons, g the result of cached.get(this.gl): reading
\* .mapping of undefined throws, and so does destructuring an undefined entry
LoadCallback(p, id, g) ==
  /\ cached' = g.cache
  /\ IF g.def /\ id \in DOMAIN g.value.mapping
     THEN WriteIcon(p, id, g.value.mapping[id])
     ELSE /\ last' = Last("resolve", p.m, p.gl, "TypeError", 0, 0, p.batch, id,
                          NoWrite, NoData, <<>>)
          /\ batches' = [batches EXCEPT ![p.batch].events = @ \o <<Event("throw", id)>>]

\* loadImage(icon.url) resolves
LoadResolve(p) ==
  /\ p \in loading
  /\ loading' = loading \ {p}
  /\ LoadCallback(p, getIconId(p.icon), LRUGet(cached, p.gl))
  /\ UNCHANGED <<managers, textures, calls, reads, packing>>

\* loadImage(icon.url) rejects: the callback never runs
LoadReject(p) ==
  /\ p \in loading
  /\ loading' = loading \ {p}
  /\ batches' = [batches EXCEPT ![p.batch].events =
                   @ \o <<Event("reject", getIconId(p.icon))>>]
  /\ last' = Plain("reject", p.m, p.gl, p.batch, getIconId(p.icon))
  /\ UNCHANGED <<cached, managers, textures, calls, reads, packing>>

\* a getTexture that returns the manager's own texture and never reads the cache
TextureReadOwn(m, c) == [cache |-> c, err |-> "none"]

\* this._autoPacking ? cached.get(this.gl).texture : this._texture; reading
\* .texture of undefined throws
TextureRead(m, c) ==
  IF m.autoPacking
  THEN [cache |-> LRUGet(c, m.gl).cache,
        err |-> IF LRUGet(c, m.gl).def THEN "none" ELSE "TypeError"]
  ELSE [cache |-> c, err |-> "none"]

\* getTexture()
GetTexture(mi, maxReads) ==
  /\ reads < maxReads
  /\ mi \in 1..Len(managers)
  /\ reads' = reads + 1
  /\ cached' = TextureRead(managers[mi], cached).cache
  /\ last' = Last("getTexture", mi, managers[mi].gl,
                  TextureRead(managers[mi], cached).err, 0, 0, 0, "", NoWrite, NoData, <<>>)
  /\ UNCHANGED <<managers, textures, loading, batches, calls, packing>>

\* const icon = this._getIcon(dataPoint) throws when no getIcon was given;
\* with auto packing cached.get(this.gl).mapping is read, without it
\* this._mapping, which is null as no iconMapping is given
MappingRead(m, c) ==
  IF ~m.getIcon THEN [cache |-> c, err |-> "TypeError"]
  ELSE IF m.autoPacking
  THEN [cache |-> LRUGet(c, m.gl).cache,
        err |-> IF LRUGet(c, m.gl).def THEN "none" ELSE "TypeError"]
  ELSE [cache |-> c, err |-> "TypeError"]

\* getIconMapping(dataPoint)
GetIconMapping(mi, point, maxReads) ==
  /\ reads < maxReads
  /\ mi \in 1..Len(managers)
  /\ reads' = reads + 1
  /\ cached' = MappingRead(managers[mi], cached).cache
  /\ last' = Last("getIconMapping", mi, managers[mi].gl,
                  MappingRead(managers[mi], cached).err, 0, 0, 0, getIconId(point),
                  NoWrite, NoData, <<>>)
  /\ UNCHANGED <<managers, textures, loading, batches, calls, packing>>

Batches == BatchesOf(Points, MaxBatch)

CacheBatches == BatchesOf(CachePoints, CacheBatch)

Next ==
  \/ \E gl \in Ctx : New(gl, MaxManagers)
  \/ \E mi \in 1..MaxManagers, autoPacking \in AutoPackingInputs, getIcon \in BOOLEAN,
        data \in DataInputs(Batches), surfaceOk \in BOOLEAN :
       SetProps(mi, autoPacking, getIcon, data, surfaceOk, MaxUpdates)
  \/ \E p \in loading : LoadResolve(p)
  \/ \E p \in loading : LoadReject(p)

Spec == Init /\ [][Next]_vars

\* the same handlers with the bounds of the cache
NextCache ==
  \/ \E gl \in Ctx : New(gl, CacheManagers)
  \/ \E mi \in 1..CacheManagers, autoPacking \in AutoPackingInputs, getIcon \in BOOLEAN,
        data \in DataInputs(CacheBatches), surfaceOk \in BOOLEAN :
       SetProps(mi, autoPacking, getIcon, data, surfaceOk, CacheUpdates)
  \/ \E p \in loading : LoadResolve(p)
  \/ \E p \in loading : LoadReject(p)

SpecCache == Init /\ [][NextCache]_vars

\* the handlers with the reads getTexture and getIconMapping, which change
\* nothing but the recency of the cache
LruPoints == { Point(TRUE, "a", "u1", 500, 100) }

LruBatches == BatchesOf(LruPoints, LruBatch)

NextLRU ==
  \/ \E gl \in Ctx : New(gl, LruManagers)
  \/ \E mi \in 1..LruManagers, autoPacking \in AutoPackingInputs, getIcon \in BOOLEAN,
        data \in DataInputs(LruBatches), surfaceOk \in BOOLEAN :
       SetProps(mi, autoPacking, getIcon, data, surfaceOk, LruUpdates)
  \/ \E mi \in 1..LruManagers : GetTexture(mi, LruReads)
  \/ \E mi \in 1..LruManagers, point \in LruPoints : GetIconMapping(mi, point, LruReads)
  \/ \E p \in loading : LoadResolve(p)
  \/ \E p \in loading : LoadReject(p)

SpecLRU == Init /\ [][NextLRU]_vars

\* ------------------------------------------------------------ the packer alone
\* the icons of a batch have distinct ids; the sizes are two that share a shelf
\* of PackWidth, a taller one, a wider one and one wider than the canvas
PackIds == <<"p", "q", "r", "s", "t">>

PackSizes == {<<40, 20>>, <<40, 30>>, <<60, 20>>, <<120, 10>>}

PackInputs ==
  UNION { { [i \in 1..n |-> Point(TRUE, PackIds[i], PackIds[i], sz[i][1], sz[i][2])] :
            sz \in [1..n -> PackSizes] } : n \in 0..PackBatch }

\* the buffer argument: the default and a smaller one
PackBuffers == {DEFAULT_BUFFER, 2}

\* the maxCanvasWidth argument: one that holds two of the smaller icons on a
\* shelf and one that holds one
PackWidths == {100, 50}

InitPack ==
  /\ cached = [store |-> <<>>, order |-> <<>>]
  /\ managers = <<>>
  /\ textures = <<>>
  /\ loading = {}
  /\ batches = <<>>
  /\ calls = 0
  /\ last = Plain("init", 0, 0, 0, "")
  /\ reads = 0
  /\ packing \in {[called |-> FALSE, icons |-> s, buffer |-> b, maxCanvasWidth |-> w,
                     result |-> NoResult] :
                    s \in PackInputs, b \in PackBuffers, w \in PackWidths}

\* buildMapping({icons, buffer, maxCanvasWidth}): mapping, xOffset and yOffset
\* take their defaults {}, 0, 0
BuildMappingCall ==
  /\ ~packing.called
  /\ packing' = [packing EXCEPT
                   !.called = TRUE,
                   !.result = buildMapping(packing.icons, packing.buffer, EmptyMapping,
                                           0, 0, packing.maxCanvasWidth)]
  /\ UNCHANGED <<cached, managers, textures, loading, batches, calls, last, reads>>

NextPack == BuildMappingCall

SpecPack == InitPack /\ [][NextPack]_vars

\* ------------------------------------------------------------ properties
Registered == DOMAIN cached.store

MappingOfCtx(gl) == cached.store[gl].mapping

\* the last step was a setProps call (the call counter advanced)
SetPropsStep == calls' = calls + 1 /\ last'.op = "setProps"

\* the last setProps call reached the loop of getDiffIcons
Extracted(l, ms) == ms[l.m].autoPacking /\ ms[l.m].getIcon /\ l.data.given

\* every packing update of the context went through to its commit
AllCommitted(gl) ==
  \A b \in 1..Len(batches) : batches[b].gl = gl => batches[b].events # <<>>

Intersect(a, b) ==
  /\ a.x < b.x + b.width
  /\ b.x < a.x + a.width
  /\ a.y < b.y + b.height
  /\ b.y < a.y + a.height

\* C1: no two distinct icons of a context's committed mapping have intersecting
\* boxes [x, x+width) x [y, y+height)
C1_NoOverlap ==
  \A gl \in Registered :
    AllCommitted(gl) =>
      \A i, j \in DOMAIN MappingOfCtx(gl) :
        i # j => ~Intersect(MappingOfCtx(gl)[i], MappingOfCtx(gl)[j])

\* every record of the batch yields an icon whose id is cached with the same url
AllCachedSame(pts, mapping) ==
  /\ Len(pts) > 0
  /\ \A i \in 1..Len(pts) :
       /\ pts[i].icon
       /\ pts[i].url # ""
       /\ getIconId(pts[i]) \in DOMAIN mapping
       /\ mapping[getIconId(pts[i])].url = pts[i].url

\* C2: an update with a non-empty batch whose icons are all cached with the same
\* url leaves mapping, xOffset, yOffset and canvasHeight as they were, schedules
\* no write and notifies nobody
C2_AppendOnlyNoOp ==
  [][(/\ SetPropsStep
      /\ Extracted(last', managers')
      /\ last'.gl \in Registered
      /\ AllCommitted(last'.gl)
      /\ AllCachedSame(last'.data.pts, MappingOfCtx(last'.gl)))
     => (/\ cached'.store[last'.gl] = cached.store[last'.gl]
         /\ loading' = loading
         /\ last'.notified = 0)]_vars

\* C3: an id committed at (x, y) is still mapped to (x, y) after any later
\* committed update of the context
C3_PositionImmutable ==
  [][(SetPropsStep /\ last'.err = "none" /\ last'.gl \in Registered
      /\ AllCommitted(last'.gl))
     => \A id \in DOMAIN MappingOfCtx(last'.gl) :
          /\ id \in DOMAIN cached'.store[last'.gl].mapping
          /\ cached'.store[last'.gl].mapping[id].x = MappingOfCtx(last'.gl)[id].x
          /\ cached'.store[last'.gl].mapping[id].y = MappingOfCtx(last'.gl)[id].y]_vars

IsPowOfTwo(n) == n >= 1 /\ nextPowOfTwo(n) = n

\* C4: after a committed update the canvas height is a power of two and is at
\* least y + height of every icon of the mapping
C4_CanvasHeight ==
  \A gl \in Registered :
    (cached.store[gl].texture # 0 /\ AllCommitted(gl)) =>
      /\ IsPowOfTwo(cached.store[gl].canvasHeight)
      /\ \A id \in DOMAIN MappingOfCtx(gl) :
           cached.store[gl].canvasHeight
             >= MappingOfCtx(gl)[id].y + MappingOfCtx(gl)[id].height

Elements(seq) == {seq[i] : i \in 1..Len(seq)}

\* the icons of a batch that are new to the mapping or have another url in it
NewOrChanged(pts, mapping) ==
  {p \in Elements(pts) :
     getIconId(p) \notin DOMAIN mapping \/ mapping[getIconId(p)].url # p.url}

DistinctIds(pts) ==
  \A i, j \in 1..Len(pts) : i # j => getIconId(pts[i]) # getIconId(pts[j])

\* C5: the differ returns exactly the icons whose id is not cached or is cached
\* with another url (stated for batches without duplicate ids, on a context
\* whose updates all committed)
C5_DiffCriterion ==
  [][(/\ SetPropsStep
      /\ Extracted(last', managers')
      /\ last'.gl \in Registered
      /\ AllCommitted(last'.gl)
      /\ DistinctIds(last'.data.pts)
      /\ last'.err \notin {"IconMissing", "UrlMissing", "TypeError"})
     => Elements(last'.diff) = NewOrChanged(last'.data.pts, MappingOfCtx(last'.gl))]_vars

\* the canvas height captured by the load whose write is w, for the entry e
CapturedHeight(w, e) == w.y + e.y + e.height

\* C6: a completed write targets the rows surfaceHeight - y - height, with the
\* height of the surface at the time of the write (stated for surfaces that did
\* not shrink since the load was started)
C6_WriteRows ==
  (/\ last.op = "resolve"
   /\ last.err = "none"
   /\ CapturedHeight(last.write, MappingOfCtx(last.gl)[last.id])
        <= textures[last.write.texture].height)
  => last.write.y = textures[last.write.texture].height
                      - MappingOfCtx(last.gl)[last.id].y
                      - MappingOfCtx(last.gl)[last.id].height

\* C7: when the surface creation or resize fails, the cached state of the
\* context is what it was before the call, nobody is notified and no write is
\* scheduled
C7_NoPartialCommit ==
  [][(SetPropsStep /\ last'.err = "SurfaceError")
     => (/\ cached'.store = cached.store
         /\ loading' = loading
         /\ last'.notified = 0)]_vars

BadRecord(p) == ~p.icon \/ p.url = ""

\* C8: when a record of the batch yields no icon, or an icon without url, the
\* update fails and packs nothing: every cached state, the textures, the loads in
\* flight and the notifications are as before the call
C8_MissingIconFails ==
  [][(/\ SetPropsStep
      /\ Extracted(last', managers')
      /\ \E i \in 1..Len(last'.data.pts) : BadRecord(last'.data.pts[i]))
     => (/\ last'.err # "none"
         /\ cached'.store = cached.store
         /\ textures' = textures
         /\ loading' = loading
         /\ batches' = batches
         /\ last'.notified = 0
         /\ last'.scheduled = 0)]_vars

\* a failed update whose bad record comes after a valid one, on a context whose
\* mapping already holds icons
C8_Witness ==
  /\ last.op = "setProps"
  /\ last.err \in {"IconMissing", "UrlMissing"}
  /\ Len(last.data.pts) = 2
  /\ ~BadRecord(last.data.pts[1])
  /\ last.gl \in Registered
  /\ DOMAIN MappingOfCtx(last.gl) # {}
  /\ loading # {}

\* C9: the completion of a load whose context was evicted raises no error and
\* writes nothing
C9_EvictedWriteSilent ==
  (last.op = "resolve" /\ last.gl \notin Registered)
  => (last.err = "none" /\ last.write = NoWrite)

InFlight(b) == {p \in loading : p.batch = b}

Positions(events, e) == {i \in 1..Len(events) : events[i].e = e}

\* the managers constructed for a context
ManagersOf(gl) == {i \in 1..Len(managers) : managers[i].gl = gl}

\* C10 as stated: a committed update of k > 0 icons whose loads all resolved
\* notified 1 + k times (stated for contexts with a single manager)
C10_OnePlusK ==
  \A b \in 1..Len(batches) :
    (/\ batches[b].events # <<>>
     /\ Cardinality(ManagersOf(batches[b].gl)) = 1
     /\ InFlight(b) = {}
     /\ Positions(batches[b].events, "reject") = {})
    => Count(batches[b].events, "notify") = 1 + batches[b].k

\* the synchronous part of a committed update: surface operations, then the
\* commit, then one notification; n is the position of the commit
SyncPart(ev, n) ==
  /\ n + 1 <= Len(ev)
  /\ ev[n].e = "commit"
  /\ ev[n + 1] = Event("notify", "")
  /\ \A i \in 1..(n - 1) : ev[i].e \in {"create", "resize"}
  /\ \A i \in (n + 2)..Len(ev) : ev[i].e \in {"write", "mipmap", "notify", "throw", "reject"}
  /\ \A i \in (n + 2)..Len(ev) : ev[i].id # ""

\* every write is followed by the mip regeneration and one notification, and
\* nothing else notifies after the synchronous part
AsyncPart(ev, n) ==
  /\ \A i \in Positions(ev, "write") :
       /\ i + 2 <= Len(ev)
       /\ ev[i + 1] = Event("mipmap", ev[i].id)
       /\ ev[i + 2] = Event("notify", ev[i].id)
  /\ \A i \in Positions(ev, "notify") :
       i > n + 1 => (ev[i - 1].e = "mipmap" /\ ev[i - 2] = Event("write", ev[i].id))
  /\ \A i, j \in Positions(ev, "write") \cup Positions(ev, "throw")
                   \cup Positions(ev, "reject") :
       i # j => ev[i].id # ev[j].id

\* C10 (amended): a failed update notifies nobody and starts no load; a committed
\* update of k > 0 icons notifies once after the commit and before any write;
\* each load that resolves while the cached state of the context maps the icon
\* id writes, regenerates the mipmaps and notifies once, every other completion
\* notifies nobody; so the notifications are 1 + the writes, and 1 + k once all
\* k loads have written
C10_Notifications ==
  /\ \A b \in 1..Len(batches) :
       IF batches[b].events = <<>>
       THEN InFlight(b) = {}
       ELSE /\ batches[b].k > 0
            /\ \E n \in 1..3 : /\ SyncPart(batches[b].events, n)
                               /\ AsyncPart(batches[b].events, n)
            /\ Count(batches[b].events, "write") + Count(batches[b].events, "throw")
                 + Count(batches[b].events, "reject") + Cardinality(InFlight(b))
               = batches[b].k
            /\ Count(batches[b].events, "notify")
               = 1 + Count(batches[b].events, "write")
  /\ last.op = "setProps" =>
       /\ last.notified = (IF last.err = "none" /\ Len(last.diff) > 0 THEN 1 ELSE 0)
       /\ last.scheduled = (IF last.err = "none" THEN Len(last.diff) ELSE 0)
  /\ last.op = "resolve" =>
       /\ last.notified = (IF last.err = "none" THEN 1 ELSE 0)
       /\ last.err = "none" <=>
            (last.gl \in Registered /\ last.id \in DOMAIN MappingOfCtx(last.gl))

\* both icons of a batch were written, the second of the batch first
C10_Witness ==
  \E b \in 1..Len(batches) :
    /\ batches[b].k = 2
    /\ Count(batches[b].events, "notify") = 3
    /\ \E i, j \in Positions(batches[b].events, "write") :
         /\ i < j
         /\ batches[b].events[i].id = "ub"
         /\ batches[b].events[j].id = "a"
    /\ last.op = "resolve"

\* ------------------------------------------------------------ C13
\* the place of the i-th icon of the batch in the result of buildMapping
Placed(i) == packing.result.mapping[getIconId(packing.icons[i])]

\* the right end (with its buffer) and the row of the i-th icon; before the
\* first icon the cursor is at (0, 0)
EndOf(i) == IF i = 0 THEN 0 ELSE Placed(i).x + packing.icons[i].width + packing.buffer

YOf(i) == IF i = 0 THEN 0 ELSE Placed(i).y

\* the i-th icon is not on the shelf of the one before it
Opens(i) == YOf(i) # YOf(i - 1)

\* the icons up to the i-th that are on the shelf of the i-th
ShelfUpTo(i) == {j \in 1..i : Placed(j).y = YOf(i)}

\* the largest height on the shelf of the i-th icon, 0 for a shelf without icons
MaxHeight(js) ==
  IF js = {} THEN 0
  ELSE CHOOSE h \in {packing.icons[j].height : j \in js} :
         \A j \in js : packing.icons[j].height <= h

RECURSIVE WidthSum(_)
WidthSum(js) ==
  IF js = {} THEN 0
  ELSE LET j == CHOOSE k \in js : TRUE
       IN packing.icons[j].width + packing.buffer + WidthSum(js \ {j})

SmallestPowOfTwo(h, v) == IsPowOfTwo(h) /\ h >= v /\ (h = 1 \/ h \div 2 < v)

\* C13: packed from cursor (0,0) into an empty mapping, every icon of a batch of
\* distinct ids is mapped with its own size; its x is the sum of width + buffer of
\* the icons before it on its shelf; it opens a new shelf exactly when the end of
\* the shelf so far + its width + buffer exceeds the canvas width; a new shelf is
\* at the y of the shelf before + the largest height on that shelf + buffer; and
\* the canvas height is the smallest power of two >= the largest height on the
\* last shelf + its y + buffer; the cursor returned is the end of the last shelf
C13_ShelfPacker ==
  packing.called =>
    /\ DOMAIN packing.result.mapping
         = {getIconId(packing.icons[i]) : i \in 1..Len(packing.icons)}
    /\ \A i \in 1..Len(packing.icons) :
         /\ Placed(i).width = packing.icons[i].width
         /\ Placed(i).height = packing.icons[i].height
         /\ Placed(i).x = WidthSum(ShelfUpTo(i) \ {i})
         /\ Opens(i) <=>
              EndOf(i - 1) + packing.icons[i].width + packing.buffer
                > packing.maxCanvasWidth
         /\ Placed(i).y = IF Opens(i)
                          THEN YOf(i - 1) + MaxHeight(ShelfUpTo(i - 1)) + packing.buffer
                          ELSE YOf(i - 1)
    /\ SmallestPowOfTwo(packing.result.canvasHeight,
                        MaxHeight(ShelfUpTo(Len(packing.icons)))
                          + YOf(Len(packing.icons)) + packing.buffer)
    /\ packing.result.xOffset = EndOf(Len(packing.icons))
    /\ packing.result.yOffset = YOf(Len(packing.icons))
    /\ packing.result.canvasWidth = packing.maxCanvasWidth

\* the example: three 40x20 icons, buffer 4, width 100 are placed at (0,0),
\* (44,0), (0,24) on a canvas 64 high
C13_Witness ==
  /\ packing.called
  /\ packing.buffer = 4
  /\ packing.maxCanvasWidth = 100
  /\ Len(packing.icons) = 3
  /\ \A i \in 1..3 : packing.icons[i].width = 40 /\ packing.icons[i].height = 20
  /\ Placed(1).x = 0 /\ Placed(1).y = 0
  /\ Placed(2).x = 44 /\ Placed(2).y = 0
  /\ Placed(3).x = 0 /\ Placed(3).y = 24
  /\ packing.result.canvasHeight = 64

\* ------------------------------------------------------------ C11
\* a load of the batch failed to decode before this step
FailedBefore(b) == Positions(batches[b].events, "reject") # {}

\* C11: the failure of one load leaves every cached state and surface as they
\* are, writes nothing, notifies nobody and keeps the other loads in flight; and
\* a load that resolves in a batch where another load failed is still written
\* and notified
C11_DecodeIsolation ==
  [][/\ last'.op = "reject" =>
          /\ cached' = cached
          /\ textures' = textures
          /\ \E p \in loading : loading' = loading \ {p}
          /\ last'.notified = 0
          /\ last'.write = NoWrite
     /\ (last'.op = "resolve" /\ FailedBefore(last'.batch)) =>
          /\ last'.err = "none"
          /\ last'.notified = 1
          /\ last'.write # NoWrite]_vars

\* ------------------------------------------------------------ C12
\* C12: while a context stays registered, no step removes an id from its mapping,
\* discards its surface or takes its cursor back (stated for contexts whose
\* updates all committed)
C12_MappingMonotonic ==
  [][\A gl \in Registered :
       (gl \in DOMAIN cached'.store /\ AllCommitted(gl)) =>
         /\ DOMAIN MappingOfCtx(gl) \subseteq DOMAIN cached'.store[gl].mapping
         /\ cached.store[gl].texture # 0 =>
              cached'.store[gl].texture = cached.store[gl].texture
         /\ cached'.store[gl].yOffset >= cached.store[gl].yOffset]_vars

\* ------------------------------------------------------------ C14
\* the change test for one occurrence: id not cached, or cached with another url
Changed(p, mapping) ==
  getIconId(p) \notin DOMAIN mapping \/ mapping[getIconId(p)].url # p.url

\* the occurrences of an id in a batch that pass the change test
ChangedAt(pts, id, mapping) ==
  {i \in 1..Len(pts) : getIconId(pts[i]) = id /\ Changed(pts[i], mapping)}

LastOf(js) == CHOOSE j \in js : \A k \in js : k <= j

\* C14: for a batch with duplicate ids in which every id has an occurrence that
\* passes the change test, the diff holds exactly one entry per id, and it is the
\* last occurrence of the id that passes the test: an occurrence whose url is the
\* cached one never replaces an earlier changed occurrence
C14_LastChangedWins ==
  [][(/\ SetPropsStep
      /\ Extracted(last', managers')
      /\ last'.gl \in Registered
      /\ AllCommitted(last'.gl)
      /\ ~DistinctIds(last'.data.pts)
      /\ \A i \in 1..Len(last'.data.pts) :
           /\ ~BadRecord(last'.data.pts[i])
           /\ ChangedAt(last'.data.pts, getIconId(last'.data.pts[i]),
                        MappingOfCtx(last'.gl)) # {})
     => /\ DistinctIds(last'.diff)
        /\ \A i \in 1..Len(last'.data.pts) :
             last'.data.pts[LastOf(ChangedAt(last'.data.pts,
                                             getIconId(last'.data.pts[i]),
                                             MappingOfCtx(last'.gl)))]
               \in Elements(last'.diff)]_vars

\* ------------------------------------------------------------ C15
\* the batch of the call is empty or absent, or the manager has no getIcon
NothingToDo(l, ms) == ~l.data.given \/ l.data.pts = <<>> \/ ~ms[l.m].getIcon

\* C15: a setProps call with an empty batch, without batch or on a manager that
\* never got a getIcon raises no error and leaves every cached atlas state, the
\* surfaces, the loads in flight and the history of updates as they were, and
\* notifies nobody (the read of the cache still counts as a touch)
C15_NothingToDo ==
  [][(SetPropsStep /\ NothingToDo(last', managers'))
     => (/\ last'.err = "none"
         /\ cached'.store = cached.store
         /\ textures' = textures
         /\ loading' = loading
         /\ batches' = batches
         /\ last'.notified = 0
         /\ last'.scheduled = 0)]_vars

\* an empty batch given to a packing manager of a context whose mapping holds
\* icons and whose surface exists
C15_Witness ==
  /\ last.op = "setProps"
  /\ last.data.given
  /\ last.data.pts = <<>>
  /\ managers[last.m].autoPacking
  /\ managers[last.m].getIcon
  /\ last.gl \in Registered
  /\ DOMAIN MappingOfCtx(last.gl) # {}
  /\ cached.store[last.gl].texture # 0

\* ------------------------------------------------------------ C17
\* the step is a committed update of a context that had a surface
CommittedOnSurface ==
  /\ SetPropsStep
  /\ last'.err = "none"
  /\ last'.batch # 0
  /\ last'.gl \in Registered
  /\ AllCommitted(last'.gl)
  /\ cached.store[last'.gl].texture # 0

\* C17: a committed update never lowers the canvas height of its context nor
\* the height of its surface
C17_AtlasGrows ==
  [][CommittedOnSurface
     => (/\ cached'.store[last'.gl].canvasHeight >= cached.store[last'.gl].canvasHeight
         /\ textures'[cached.store[last'.gl].texture].height
              >= textures[cached.store[last'.gl].texture].height)]_vars

\* ------------------------------------------------------------ C18
Oversized(e) == e.width + DEFAULT_BUFFER > MAX_CANVAS_WIDTH

\* C18: an icon wider than the canvas is mapped at x = 0 and no other icon of
\* the mapping has its y, whether the other icons came before or after it, in its
\* batch or in another update
C18_OversizedAlone ==
  \A gl \in Registered :
    \A id \in DOMAIN MappingOfCtx(gl) :
      Oversized(MappingOfCtx(gl)[id]) =>
        /\ MappingOfCtx(gl)[id].x = 0
        /\ \A other \in DOMAIN MappingOfCtx(gl) :
             other # id => MappingOfCtx(gl)[other].y # MappingOfCtx(gl)[id].y

\* an oversized icon with an icon above it and an icon packed by a later update
\* below it
C18_Witness ==
  /\ last.op = "setProps"
  /\ last.err = "none"
  /\ last.batch = 2
  /\ last.gl \in Registered
  /\ AllCommitted(last.gl)
  /\ \E id, before, after \in DOMAIN MappingOfCtx(last.gl) :
       /\ Oversized(MappingOfCtx(last.gl)[id])
       /\ MappingOfCtx(last.gl)[before].y < MappingOfCtx(last.gl)[id].y
       /\ MappingOfCtx(last.gl)[after].y > MappingOfCtx(last.gl)[id].y
       /\ after = getIconId(last.diff[1])

\* ------------------------------------------------------------ C19
\* every update of the context has committed, after the step
AllCommittedAfter(gl) ==
  \A b \in 1..Len(batches') : batches'[b].gl = gl => batches'[b].events # <<>>

\* the step is a committed packing update
CommittedUpdate ==
  /\ SetPropsStep
  /\ last'.err = "none"
  /\ last'.batch # 0
  /\ AllCommittedAfter(last'.gl)

\* C19: a committed update never takes the cursor of its context back (yOffset
\* does not decrease, nor xOffset while yOffset stays), and in the state it
\* commits every icon of the mapping is above the cursor row or, on the cursor
\* row, ends with its buffer at or before xOffset
C19_CursorConsistent ==
  [][CommittedUpdate
     => (/\ last'.gl \in Registered =>
              /\ cached'.store[last'.gl].yOffset >= cached.store[last'.gl].yOffset
              /\ cached'.store[last'.gl].yOffset = cached.store[last'.gl].yOffset
                   => cached'.store[last'.gl].xOffset >= cached.store[last'.gl].xOffset
         /\ \A id \in DOMAIN cached'.store[last'.gl].mapping :
              /\ cached'.store[last'.gl].mapping[id].y <= cached'.store[last'.gl].yOffset
              /\ cached'.store[last'.gl].mapping[id].y = cached'.store[last'.gl].yOffset
                   => cached'.store[last'.gl].mapping[id].x
                        + cached'.store[last'.gl].mapping[id].width + DEFAULT_BUFFER
                      <= cached'.store[last'.gl].xOffset)]_vars

\* the second committed update of a context, with icons on a closed shelf and on
\* the cursor row
C19_Witness ==
  /\ last.op = "setProps"
  /\ last.err = "none"
  /\ last.batch = 2
  /\ batches[1].gl = last.gl
  /\ AllCommitted(last.gl)
  /\ last.gl \in Registered
  /\ cached.store[last.gl].yOffset > 0
  /\ \E i, j \in DOMAIN MappingOfCtx(last.gl) :
       /\ MappingOfCtx(last.gl)[i].y < cached.store[last.gl].yOffset
       /\ MappingOfCtx(last.gl)[j].y = cached.store[last.gl].yOffset

\* ------------------------------------------------------------ C20
\* the surface operations of the update that the step committed
SurfaceOps(e) ==
  {batches'[last'.batch].events[i].e :
     i \in Positions(batches'[last'.batch].events, e)}

HadSurface(gl) == gl \in Registered /\ cached.store[gl].texture # 0

\* C20: the state a committed update leaves has a surface as high as the
\* committed canvas height and as wide as the maximal canvas width; the update
\* created a surface exactly when the context had none, resized it exactly when
\* the context had one of another height than the new canvas height, and kept
\* the handle the context had
C20_SurfaceCoherent ==
  [][(SetPropsStep /\ last'.err = "none" /\ last'.batch # 0)
     => (/\ cached'.store[last'.gl].texture \in 1..Len(textures')
         /\ textures'[cached'.store[last'.gl].texture].height
              = cached'.store[last'.gl].canvasHeight
         /\ textures'[cached'.store[last'.gl].texture].width = MAX_CANVAS_WIDTH
         /\ SurfaceOps("create") # {} <=> ~HadSurface(last'.gl)
         /\ SurfaceOps("resize") # {} <=>
              /\ HadSurface(last'.gl)
              /\ textures[cached.store[last'.gl].texture].height
                   # cached'.store[last'.gl].canvasHeight
         /\ HadSurface(last'.gl) =>
              cached'.store[last'.gl].texture = cached.store[last'.gl].texture)]_vars

\* an update that resized the surface its context had
C20_Witness ==
  /\ last.op = "setProps"
  /\ last.err = "none"
  /\ last.batch = 2
  /\ batches[2].events[1].e = "resize"
  /\ last.gl \in Registered
  /\ cached.store[last.gl].texture = 1
  /\ textures[1].height = cached.store[last.gl].canvasHeight

\* ------------------------------------------------------------ C16
\* the handler that ran last read (get) or wrote (set) the state of its context:
\* a constructor, a committed update, or a getTexture or getIconMapping of a
\* packing manager that returned
TouchedLast ==
  \/ last.op = "new"
  \/ last.op = "setProps" /\ last.err = "none" /\ last.batch # 0
  \/ /\ last.op \in {"getTexture", "getIconMapping"}
     /\ last.err = "none"
     /\ managers[last.m].autoPacking

\* the step registers a context that the full cache does not hold, by a
\* constructor or by the commit of an update
RegistersFourth ==
  /\ last'.gl \notin Registered
  /\ last'.gl \in DOMAIN cached'.store
  /\ Cardinality(Registered) = CacheLimit

\* C16: the cache never holds more than 3 contexts. Its recency order changes
\* only by the context of the handler moving to the most recent end. Registering
\* a context it does not hold, when it is full, evicts exactly the least recent
\* context; and as reads (get) count as touches like writes (set), that is never
\* the context whose state the handler before read or wrote
C16_TouchOnRead ==
  [][/\ Cardinality(DOMAIN cached'.store) <= CacheLimit
     /\ cached'.order # cached.order =>
          /\ cached'.order # <<>>
          /\ cached'.order[Len(cached'.order)] = last'.gl
     /\ Without(cached'.order, last'.gl)
          = (IF RegistersFourth THEN Tail(cached.order)
             ELSE Without(cached.order, last'.gl))
     /\ RegistersFourth =>
          /\ Registered \ DOMAIN cached'.store = {Head(cached.order)}
          /\ DOMAIN cached'.store \ Registered = {last'.gl}
          /\ TouchedLast => last.gl \in DOMAIN cached'.store]_vars

\* contexts 1, 2, 3 were registered in this order by the only three managers,
\* no update committed, and the registration of 4 evicted 2 and kept 1: the
\* state of 1 was read in between
C16_Witness ==
  /\ last.op = "new"
  /\ last.gl = 4
  /\ Len(managers) = 4
  /\ \A i \in 1..4 : managers[i].gl = i
  /\ batches = <<>>
  /\ reads = 1
  /\ Registered = {1, 3, 4}

====
